---- MODULE Spec2Model ----
(***************************************************************************)
(* A model of libplist's XML property-list codec (src/src/xplist.c):       *)
(* format_string, node_to_xml, xml_to_node, plist_to_xml, plist_from_xml.  *)
(* Characters are byte values (ASCII codes); C strings are sequences of    *)
(* non-zero bytes.                                                         *)
(***************************************************************************)
EXTENDS Integers, Sequences, FiniteSets, TLC

VARIABLES
    plist_xml,  \* the caller's buffer of document bytes (*plist_xml of plist_to_xml)
    length,     \* *length of plist_to_xml
    plist,      \* the caller's decoded tree (*plist of plist_from_xml)
    plist_in,   \* the tree the caller holds for encoding
    encoded,    \* the tree plist_xml was encoded from, if plist_to_xml wrote it
    last,       \* what the last call was and did
    fmt         \* a call of format_string on its own

vars == <<plist_xml, length, plist, plist_in, encoded, last, fmt>>

(***************************************************************************)
(* Bounds of the model.                                                    *)
(***************************************************************************)
MaxLen == 6        \* longest generic input of format_string
MaxCols == 3       \* widest generic column width of format_string
MaxTabs == 2       \* deepest generic indentation of format_string
MaxStrLen == 2     \* longest generated String/Key payload
MaxNodes == 4      \* most nodes of a generated nested tree
MaxElems == 2      \* most child elements of a container in a foreign document
MaxCalls == 1      \* most calls of plist_from_xml in one run

(***************************************************************************)
(* Characters.                                                             *)
(***************************************************************************)
NL == 10
TAB == 9
NUL == 0
DataCols == 60

Min(S) == CHOOSE m \in S : \A o \in S : m <= o
Max(S) == CHOOSE m \in S : \A o \in S : m >= o

Rep(c, n) == [k \in 1..n |-> c]

(***************************************************************************)
(* g_base64_encode / g_base64_decode as node_to_xml and xml_to_node use    *)
(* them: the RFC 4648 alphabet, '=' padding, no line breaks on encoding;   *)
(* on decoding every byte outside the alphabet is skipped.                 *)
(***************************************************************************)
B64Char(v) ==
    IF v < 26 THEN 65 + v
    ELSE IF v < 52 THEN 97 + (v - 26)
    ELSE IF v < 62 THEN 48 + (v - 52)
    ELSE IF v = 62 THEN 43 ELSE 47

B64Pad == 61

B64Rank(c) ==
    IF c >= 65 /\ c <= 90 THEN c - 65
    ELSE IF c >= 97 /\ c <= 122 THEN c - 97 + 26
    ELSE IF c >= 48 /\ c <= 57 THEN c - 48 + 52
    ELSE IF c = 43 THEN 62
    ELSE IF c = 47 THEN 63
    ELSE IF c = B64Pad THEN 0
    ELSE 255

RECURSIVE g_base64_encode(_)
g_base64_encode(bytes) ==
    LET n == Len(bytes) IN
    IF n = 0 THEN <<>>
    ELSE IF n = 1 THEN
        <<B64Char(bytes[1] \div 4), B64Char((bytes[1] % 4) * 16), B64Pad, B64Pad>>
    ELSE IF n = 2 THEN
        <<B64Char(bytes[1] \div 4),
          B64Char((bytes[1] % 4) * 16 + bytes[2] \div 16),
          B64Char((bytes[2] % 16) * 4), B64Pad>>
    ELSE
        <<B64Char(bytes[1] \div 4),
          B64Char((bytes[1] % 4) * 16 + bytes[2] \div 16),
          B64Char((bytes[2] % 16) * 4 + bytes[3] \div 64),
          B64Char(bytes[3] % 64)>> \o g_base64_encode(SubSeq(bytes, 4, n))

RECURSIVE B64Quads(_)
B64Quads(cs) ==
    IF Len(cs) < 4 THEN <<>>
    ELSE
        LET v == ((B64Rank(cs[1]) * 64 + B64Rank(cs[2])) * 64 + B64Rank(cs[3])) * 64
                 + B64Rank(cs[4])
        IN  <<v \div 65536>>
            \o (IF cs[3] # B64Pad THEN <<(v \div 256) % 256>> ELSE <<>>)
            \o (IF cs[4] # B64Pad THEN <<v % 256>> ELSE <<>>)
            \o B64Quads(SubSeq(cs, 5, Len(cs)))

g_base64_decode(text) == B64Quads(SelectSeq(text, LAMBDA c : B64Rank(c) # 255))

(***************************************************************************)
(* format_string(buf, cols, depth).  The allocated buffer is zero filled   *)
(* (g_malloc0); the code's stores are listed in program order as           *)
(* <<index, byte>> pairs, 0-based as in C, and applied to the buffer; a    *)
(* store whose index is outside the buffer is kept in the list so that it  *)
(* can be seen.  A read of buf outside 0..len-1 yields -1.                 *)
(***************************************************************************)
Colw(cols, depth) == depth + cols + 1

\* the line count had the code rounded up instead of reserving one more line
NLinesCeil(len, cols) == (len + cols - 1) \div cols
NLines(len, cols) == len \div cols + 1

AllocSize(len, cols, depth) == NLines(len, cols) * Colw(cols, depth) + depth + 1

CopyCount(i, cols, len) == IF (i + 1) * cols <= len THEN cols ELSE len - i * cols

BufAt(buf, k) == IF k >= 0 /\ k < Len(buf) THEN buf[k + 1] ELSE -1

LineWrites(buf, cols, depth, i) ==
    LET colw == Colw(cols, depth)
        n == CopyCount(i, cols, Len(buf))
    IN  << <<i * colw, NL>> >>
        \o [j \in 1..depth |-> <<i * colw + 1 + (j - 1), TAB>>]
        \o [k \in 1..n |-> <<i * colw + 1 + depth + (k - 1), BufAt(buf, i * cols + (k - 1))>>]

RECURSIVE LoopWrites(_, _, _, _, _)
LoopWrites(buf, cols, depth, i, nlines) ==
    IF i >= nlines THEN <<>>
    ELSE LineWrites(buf, cols, depth, i) \o LoopWrites(buf, cols, depth, i + 1, nlines)

\* the place of the final newline had the last line been padded to full width
FinalIndexPadded(len, cols, depth) == NLines(len, cols) * Colw(cols, depth)
FinalIndex(len, cols, depth) == len + (1 + depth) * NLines(len, cols)

FinalWrites(len, cols, depth) ==
    LET at == FinalIndex(len, cols, depth)
    IN  << <<at, NL>> >>
        \o [j \in 1..depth |-> <<at + 1 + (j - 1), TAB>>]
        \o << <<at + depth + 1, NUL>> >>

FormatWrites(buf, cols, depth) ==
    LoopWrites(buf, cols, depth, 0, NLines(Len(buf), cols))
    \o FinalWrites(Len(buf), cols, depth)

\* the source indexes every memcpy reads, and every memcpy's count
FormatReads(buf, cols) ==
    UNION { { i * cols + (k - 1) : k \in 1..CopyCount(i, cols, Len(buf)) }
            : i \in 0..(NLines(Len(buf), cols) - 1) }

FormatCounts(buf, cols) ==
    { CopyCount(i, cols, Len(buf)) : i \in 0..(NLines(Len(buf), cols) - 1) }

ApplyWrites(size, ws) ==
    [p \in 1..size |->
        LET hits == { k \in DOMAIN ws : ws[k][1] = p - 1 }
        IN  IF hits = {} THEN NUL ELSE ws[Max(hits)][2]]

\* the C string held by a buffer: the bytes before its first NUL
CStr(b) ==
    LET zs == { p \in DOMAIN b : b[p] = NUL }
    IN  IF zs = {} THEN b ELSE SubSeq(b, 1, Min(zs) - 1)

format_string(buf, cols, depth) ==
    LET size == AllocSize(Len(buf), cols, depth)
        ws == FormatWrites(buf, cols, depth)
        nb == ApplyWrites(size, ws)
    IN  [size |-> size, writes |-> ws, reads |-> FormatReads(buf, cols),
         counts |-> FormatCounts(buf, cols), new_buf |-> nb, str |-> CStr(nb)]

(***************************************************************************)
(* Number and timestamp conversions used on leaf payloads.                 *)
(***************************************************************************)
IsDigit(c) == c >= 48 /\ c <= 57

RECURSIVE Digits(_)
Digits(n) == IF n < 10 THEN <<48 + n>> ELSE Digits(n \div 10) \o <<48 + (n % 10)>>

RECURSIVE Pow10(_)
Pow10(k) == IF k <= 0 THEN 1 ELSE 10 * Pow10(k - 1)

\* n in decimal, zero padded on the left to w digits
Padded(n, w) == Rep(48, w - Len(Digits(n))) \o Digits(n)

IsSpace(c) == c = 32 \/ (c >= 9 /\ c <= 13)

RECURSIVE SkipSpace(_)
SkipSpace(s) == IF s # <<>> /\ IsSpace(s[1]) THEN SkipSpace(Tail(s)) ELSE s

\* the value of character c as a digit of the given base, or -1
DigitVal(c, base) ==
    LET v == IF IsDigit(c) THEN c - 48
             ELSE IF c >= 97 /\ c <= 122 THEN c - 97 + 10
             ELSE IF c >= 65 /\ c <= 90 THEN c - 65 + 10
             ELSE 99
    IN  IF v < base THEN v ELSE -1

RECURSIVE ParseDigits(_, _, _)
ParseDigits(s, base, acc) ==
    IF s = <<>> \/ DigitVal(s[1], base) < 0 THEN acc
    ELSE ParseDigits(Tail(s), base, acc * base + DigitVal(s[1], base))

\* g_strdup_printf("%llu", intval)
PrintfLLU(n) == Digits(n)

\* g_ascii_strtoull(strval, NULL, 0): leading white space skipped, base taken
\* from the prefix (0x: 16, 0: 8, else 10), the longest run of digits read,
\* 0 when there is none
g_ascii_strtoull(str) ==
    LET s == SkipSpace(str) IN
    IF Len(s) >= 2 /\ s[1] = 48 /\ (s[2] = 120 \/ s[2] = 88)
        THEN ParseDigits(SubSeq(s, 3, Len(s)), 16, 0)
    ELSE IF Len(s) >= 1 /\ s[1] = 48 THEN ParseDigits(Tail(s), 8, 0)
    ELSE ParseDigits(s, 10, 0)

(* A Real payload is a non-negative count of RealUnit-ths, one digit finer *)
(* than "%f" prints, so that the rounding of "%f" is visible.              *)
RealUnit == Pow10(7)

Round6(r) == (r + 5) \div 10

\* g_strdup_printf("%f", realval): fixed point, six digits after the point
PrintfF(r) ==
    LET m == Round6(r)
    IN  Digits(m \div 1000000) \o <<46>> \o Padded(m % 1000000, 6)

RECURSIVE TakeDigits(_)
TakeDigits(s) == IF s # <<>> /\ IsDigit(s[1]) THEN <<s[1]>> \o TakeDigits(Tail(s)) ELSE <<>>

\* atof(strval): white space, digits, an optional point and more digits;
\* 0 when no number starts the text.  Digits past the seventh after the
\* point are below the payload's resolution and dropped.
atof(str) ==
    LET s == SkipSpace(str)
        ip == TakeDigits(s)
        rest == SubSeq(s, Len(ip) + 1, Len(s))
        fp == IF rest # <<>> /\ rest[1] = 46 THEN TakeDigits(Tail(rest)) ELSE <<>>
        f7 == SubSeq(fp \o Rep(48, 7), 1, 7)
    IN  ParseDigits(ip, 10, 0) * RealUnit + ParseDigits(f7, 10, 0)

(* A Date payload is a GTimeVal [tv_sec, tv_usec]; the model's timestamps  *)
(* lie within 1970-01-01, so the date part of the ISO-8601 text is fixed.  *)
EpochDay == <<49, 57, 55, 48, 45, 48, 49, 45, 48, 49, 84>>   \* "1970-01-01T"

ZeroTimeVal == [tv_sec |-> 0, tv_usec |-> 0]

g_time_val_to_iso8601(tv) ==
    EpochDay
    \o Padded(tv.tv_sec \div 3600, 2) \o <<58>>
    \o Padded((tv.tv_sec \div 60) % 60, 2) \o <<58>>
    \o Padded(tv.tv_sec % 60, 2)
    \o (IF tv.tv_usec # 0 THEN <<46>> \o Padded(tv.tv_usec, 6) ELSE <<>>)
    \o <<90>>

AllDigits(s) == \A k \in DOMAIN s : IsDigit(s[k])

\* g_time_val_from_iso8601(strval, &timeval): FALSE (timeval untouched) when
\* the text is not a timestamp
Iso8601Parses(str) ==
    LET s == SkipSpace(str) IN
    /\ Len(s) >= 20
    /\ SubSeq(s, 1, 11) = EpochDay
    /\ AllDigits(SubSeq(s, 12, 13)) /\ s[14] = 58
    /\ AllDigits(SubSeq(s, 15, 16)) /\ s[17] = 58
    /\ AllDigits(SubSeq(s, 18, 19))
    /\ \/ s[20] = 90
       \/ /\ s[20] = 46
          /\ TakeDigits(SubSeq(s, 21, Len(s))) # <<>>
          /\ Len(s) > 20 + Len(TakeDigits(SubSeq(s, 21, Len(s))))
          /\ s[21 + Len(TakeDigits(SubSeq(s, 21, Len(s))))] = 90

g_time_val_from_iso8601(str, tv) ==
    LET s == SkipSpace(str) IN
    IF ~Iso8601Parses(str) THEN tv
    ELSE
        LET fr == IF s[20] = 46 THEN TakeDigits(SubSeq(s, 21, Len(s))) ELSE <<>>
            f6 == SubSeq(fr \o Rep(48, 6), 1, 6)
        IN  [tv_sec |-> ParseDigits(SubSeq(s, 12, 13), 10, 0) * 3600
                        + ParseDigits(SubSeq(s, 15, 16), 10, 0) * 60
                        + ParseDigits(SubSeq(s, 18, 19), 10, 0),
             tv_usec |-> ParseDigits(f6, 10, 0)]

(***************************************************************************)
(* The XML document model the codec builds and reads (libxml2's tree).     *)
(* A node is an element, a text node (name "text") or a reference to an    *)
(* entity the document does not declare (its content holds the entity's    *)
(* name).  NullXml is the null xmlNodePtr.                                 *)
(***************************************************************************)
NullXml == [type |-> "null", name |-> "", content |-> <<>>, children |-> <<>>]

XmlElement(name, children) ==
    [type |-> "element", name |-> name, content |-> <<>>, children |-> children]

XmlText(content) ==
    [type |-> "text", name |-> "text", content |-> content, children |-> <<>>]

XmlReference(ename) ==
    [type |-> "entity_ref", name |-> "entity_ref", content |-> ename, children |-> <<>>]

XPLIST_TEXT == "text"
XPLIST_KEY == "key"
XPLIST_FALSE == "false"
XPLIST_TRUE == "true"
XPLIST_INT == "integer"
XPLIST_REAL == "real"
XPLIST_DATE == "date"
XPLIST_DATA == "data"
XPLIST_STRING == "string"
XPLIST_ARRAY == "array"
XPLIST_DICT == "dict"

NullTag == ""

Amp == 38
Semi == 59

\* the five predefined entities: name, and the character each stands for
PredefinedEntities ==
    { [name |-> <<108, 116>>, char |-> 60],            \* lt
      [name |-> <<103, 116>>, char |-> 62],            \* gt
      [name |-> <<97, 109, 112>>, char |-> 38],        \* amp
      [name |-> <<97, 112, 111, 115>>, char |-> 39],   \* apos
      [name |-> <<113, 117, 111, 116>>, char |-> 34] } \* quot

IsPredefined(ename) == \E e \in PredefinedEntities : e.name = ename

PredefinedChar(ename) == (CHOOSE e \in PredefinedEntities : e.name = ename).char

\* the index of the first c in s at or after position i, or 0
FirstAt(s, c, i) ==
    LET hits == { k \in i..Len(s) : s[k] = c }
    IN  IF hits = {} THEN 0 ELSE Min(hits)

\* append text to a node list, merging it into a text node that ends the list
AppendText(nodes, chars) ==
    IF nodes # <<>> /\ nodes[Len(nodes)].type = "text"
    THEN [nodes EXCEPT ![Len(nodes)].content = @ \o chars]
    ELSE Append(nodes, XmlText(chars))

(* xmlStringGetNodeList, which xmlNewChild applies to its content: the     *)
(* content is read as XML text in which '&' starts an entity reference.  A *)
(* predefined entity adds its character to the text, any other name gives  *)
(* a reference node, "&;" gives nothing, and a '&' with no ';' after it    *)
(* ends the list with what was read before it.                             *)
RECURSIVE xmlStringGetNodeList(_, _)
xmlStringGetNodeList(value, acc) ==
    LET amp == FirstAt(value, Amp, 1) IN
    IF amp = 0 THEN (IF value # <<>> \/ acc = <<>> THEN AppendText(acc, value) ELSE acc)
    ELSE
        LET before == SubSeq(value, 1, amp - 1)
            acc1 == IF before # <<>> THEN AppendText(acc, before) ELSE acc
            semi == FirstAt(value, Semi, amp + 1)
        IN  IF semi = 0 THEN acc1
            ELSE
                LET ename == SubSeq(value, amp + 1, semi - 1)
                    rest == SubSeq(value, semi + 1, Len(value))
                    acc2 == IF ename = <<>> THEN acc1
                            ELSE IF IsPredefined(ename)
                                THEN AppendText(acc1, <<PredefinedChar(ename)>>)
                            ELSE Append(acc1, XmlReference(ename))
                IN  IF rest = <<>> THEN (IF acc2 = <<>> THEN <<XmlText(<<>>)>> ELSE acc2)
                    ELSE xmlStringGetNodeList(rest, acc2)

\* a NULL char* (no content) is NullStr; no C string holds the byte -1
NullStr == <<-1>>

\* xmlNewChild(parent, NULL, name, content): the new element; its content is
\* parsed by xmlStringGetNodeList
xmlNewChild(name, content) ==
    XmlElement(name, IF content = NullStr THEN <<>> ELSE xmlStringGetNodeList(content, <<>>))

\* xmlNewTextChild(parent, NULL, name, content): the new element; its content
\* is one text node holding the characters as they are
xmlNewTextChild(name, content) ==
    XmlElement(name, IF content = NullStr THEN <<>> ELSE <<XmlText(content)>>)

\* xmlNodeAddContent(node, chars)
xmlNodeAddContent(node, chars) ==
    IF node = NullXml \/ chars = <<>> THEN node
    ELSE [node EXCEPT !.children = AppendText(@, chars)]

\* xmlNodeGetContent(node): the text of the node and of all it contains; a
\* reference to an undeclared entity has none
RECURSIVE xmlNodeGetContent(_)
RECURSIVE ContentOfList(_, _)
ContentOfList(nodes, i) ==
    IF i > Len(nodes) THEN <<>>
    ELSE xmlNodeGetContent(nodes[i]) \o ContentOfList(nodes, i + 1)

xmlNodeGetContent(node) ==
    IF node.type = "text" THEN node.content
    ELSE IF node.type = "entity_ref" THEN <<>>
    ELSE ContentOfList(node.children, 1)

(* xmlDetectCharEncoding(in, len) on a C string: the byte-order marks and  *)
(* the patterns of "<?xm" it knows that hold no zero byte.                 *)
xmlDetectCharEncoding(in) ==
    LET len == Len(in) IN
    IF len >= 4 /\ SubSeq(in, 1, 4) = <<76, 111, 167, 148>> THEN "EBCDIC"
    ELSE IF len >= 4 /\ SubSeq(in, 1, 4) = <<60, 63, 120, 109>> THEN "UTF8"
    ELSE IF len >= 3 /\ SubSeq(in, 1, 3) = <<239, 187, 191>> THEN "UTF8"
    ELSE IF len >= 2 /\ SubSeq(in, 1, 2) = <<254, 255>> THEN "UTF16BE"
    ELSE IF len >= 2 /\ SubSeq(in, 1, 2) = <<255, 254>> THEN "UTF16LE"
    ELSE "NONE"

(***************************************************************************)
(* The serialized document (the bytes of plist_xml), kept at the level of  *)
(* its markup: the same tree, with character data in its escaped form.     *)
(* xmlDocDumpMemory writes '<', '>' and '&' of a text node as &lt; &gt;    *)
(* &amp; and a reference node as &name;.  xmlParseMemory reads character   *)
(* data back, resolving the predefined entities; it yields no document     *)
(* when a '&' is not followed by a name and ';', or a '<' is left in the   *)
(* character data.                                                         *)
(***************************************************************************)
EscapeChar(c) ==
    IF c = 60 THEN <<Amp, 108, 116, Semi>>
    ELSE IF c = 62 THEN <<Amp, 103, 116, Semi>>
    ELSE IF c = Amp THEN <<Amp, 97, 109, 112, Semi>>
    ELSE <<c>>

RECURSIVE Escape(_)
Escape(s) ==
    IF s = <<>> THEN <<>>
    ELSE IF Len(s) = 1 THEN EscapeChar(s[1])
    ELSE Escape(SubSeq(s, 1, Len(s) \div 2)) \o Escape(SubSeq(s, Len(s) \div 2 + 1, Len(s)))

RECURSIVE DumpList(_, _, _)
DumpNode(node) ==
    IF node.type = "element" THEN XmlElement(node.name, DumpList(node.children, 1, <<>>))
    ELSE node

DumpList(nodes, i, acc) ==
    IF i > Len(nodes) THEN acc
    ELSE
        LET n == nodes[i] IN
        IF n.type = "text"
            THEN DumpList(nodes, i + 1,
                          IF n.content = <<>> THEN acc ELSE AppendText(acc, Escape(n.content)))
        ELSE IF n.type = "entity_ref"
            THEN DumpList(nodes, i + 1, AppendText(acc, <<Amp>> \o n.content \o <<Semi>>))
        ELSE DumpList(nodes, i + 1,
                      Append(acc, XmlElement(n.name, DumpList(n.children, 1, <<>>))))

RECURSIVE CharDataOk(_)
CharDataOk(s) ==
    LET amp == FirstAt(s, Amp, 1) IN
    /\ FirstAt(s, 60, 1) = 0
    /\ \/ amp = 0
       \/ LET semi == FirstAt(s, Semi, amp + 1) IN
          /\ semi > amp + 1
          /\ CharDataOk(SubSeq(s, semi + 1, Len(s)))

RECURSIVE WellFormed(_)
WellFormed(node) ==
    IF node.type = "text" THEN CharDataOk(node.content)
    ELSE \A k \in DOMAIN node.children : WellFormed(node.children[k])

RECURSIVE ParseCharData(_, _)
ParseCharData(s, acc) ==
    LET amp == FirstAt(s, Amp, 1) IN
    IF amp = 0 THEN (IF s = <<>> THEN acc ELSE AppendText(acc, s))
    ELSE
        LET before == SubSeq(s, 1, amp - 1)
            acc1 == IF before # <<>> THEN AppendText(acc, before) ELSE acc
            semi == FirstAt(s, Semi, amp + 1)
            ename == SubSeq(s, amp + 1, semi - 1)
            acc2 == IF IsPredefined(ename) THEN AppendText(acc1, <<PredefinedChar(ename)>>)
                    ELSE Append(acc1, XmlReference(ename))
        IN  ParseCharData(SubSeq(s, semi + 1, Len(s)), acc2)

RECURSIVE ParseList(_, _, _)
ParseList(nodes, i, acc) ==
    IF i > Len(nodes) THEN acc
    ELSE
        LET n == nodes[i] IN
        IF n.type = "text" THEN ParseList(nodes, i + 1, ParseCharData(n.content, acc))
        ELSE ParseList(nodes, i + 1,
                       Append(acc, XmlElement(n.name, ParseList(n.children, 1, <<>>))))

(* A buffer of document bytes: none (a null pointer), bytes that are not   *)
(* XML, or a serialized document, whose root is NullXml when the document  *)
(* has no root element.                                                    *)
NullBuf == [kind |-> "null", root |-> NullXml]
BadBytes == [kind |-> "garbage", root |-> NullXml]
XmlBytes(root) == [kind |-> "xml", root |-> root]

\* an xmlDocPtr: NullDoc, or a document with its root element
NullDoc == [isnull |-> TRUE, root |-> NullXml]

xmlDocDumpMemory(doc) == XmlBytes(DumpNode(doc.root))

xmlParseMemory(buf) ==
    IF buf.kind # "xml" THEN NullDoc
    ELSE IF buf.root = NullXml THEN [isnull |-> FALSE, root |-> NullXml]
    ELSE IF ~WellFormed(buf.root) THEN NullDoc
    ELSE [isnull |-> FALSE,
          root |-> XmlElement(buf.root.name, ParseList(buf.root.children, 1, <<>>))]

\* xmlDocGetRootElement(doc): NULL for a null document
xmlDocGetRootElement(doc) == IF doc.isnull THEN NullXml ELSE doc.root

(***************************************************************************)
(* Value nodes: a GNode holding a plist_data_s.  from is not program       *)
(* state: it records the place (child indexes from the root element) of    *)
(* the XML element a node was decoded from, <<0>> for a node that existed  *)
(* before the call, <<>> for a node of a tree built by the caller.         *)
(***************************************************************************)
NullPlist ==
    [type |-> "NULL", boolval |-> FALSE, intval |-> 0, realval |-> 0, strval |-> NullStr,
     buff |-> <<>>, timeval |-> ZeroTimeVal, length |-> 0, children |-> <<>>, from |-> <<>>]

\* plist_new_node(plist_new_plist_data()): no kind and no payload assigned
plist_new_node(from) == [NullPlist EXCEPT !.type = "UNSET", !.from = from]

g_node_append(parent, node) == [parent EXCEPT !.children = Append(@, node)]

Containers == {"PLIST_ARRAY", "PLIST_DICT"}

(***************************************************************************)
(* node_to_xml(node, xstruct), with xstruct = {xml, depth}: the parent     *)
(* element as the call leaves it.                                          *)
(***************************************************************************)
TagOf(node) ==
    CASE node.type = "PLIST_BOOLEAN" -> (IF node.boolval THEN XPLIST_TRUE ELSE XPLIST_FALSE)
      [] node.type = "PLIST_UINT" -> XPLIST_INT
      [] node.type = "PLIST_REAL" -> XPLIST_REAL
      [] node.type = "PLIST_STRING" -> XPLIST_STRING
      [] node.type = "PLIST_KEY" -> XPLIST_KEY
      [] node.type = "PLIST_DATA" -> XPLIST_DATA
      [] node.type = "PLIST_ARRAY" -> XPLIST_ARRAY
      [] node.type = "PLIST_DICT" -> XPLIST_DICT
      [] node.type = "PLIST_DATE" -> XPLIST_DATE
      [] OTHER -> NullTag

ValOf(node, depth) ==
    CASE node.type = "PLIST_UINT" -> PrintfLLU(node.intval)
      [] node.type = "PLIST_REAL" -> PrintfF(node.realval)
      [] node.type = "PLIST_STRING" -> node.strval
      [] node.type = "PLIST_KEY" -> node.strval
      [] node.type = "PLIST_DATA" ->
            (IF node.length # 0
             THEN format_string(g_base64_encode(SubSeq(node.buff, 1, node.length)),
                                DataCols, depth).str
             ELSE NullStr)
      [] node.type = "PLIST_DATE" -> g_time_val_to_iso8601(node.timeval)
      [] OTHER -> NullStr

\* lines 199-204: which libxml2 constructor makes the element
UsesTextChild(node) == node.type = "PLIST_STRING"

NewChild(node, tag, val) ==
    IF tag = NullTag THEN NullXml
    ELSE IF UsesTextChild(node) THEN xmlNewTextChild(tag, val)
    ELSE xmlNewChild(tag, val)

NewChildOf(node, depth) == NewChild(node, TagOf(node), ValOf(node, depth))

\* the depth of the children had line 214 not added one
ChildDepthSame(depth) == depth
ChildDepth(depth) == depth + 1

RECURSIVE node_to_xml(_, _, _)
RECURSIVE g_node_children_foreach(_, _, _, _)
g_node_children_foreach(kids, i, xml, depth) ==
    IF i > Len(kids) THEN xml
    ELSE g_node_children_foreach(kids, i + 1, node_to_xml(kids[i], xml, depth), depth)

\* lines 208-225: what is done to child_node after it is made
FillChild(node, child_node, depth) ==
    IF node.type \in Containers
    THEN xmlNodeAddContent(
             g_node_children_foreach(node.children, 1, xmlNodeAddContent(child_node, <<NL>>),
                                     ChildDepth(depth)),
             Rep(TAB, depth))
    ELSE child_node

\* xmlNewChild/xmlNewTextChild link the new element as the parent's last child
LinkChild(xml, child_node) ==
    IF child_node = NullXml \/ xml = NullXml THEN xml
    ELSE [xml EXCEPT !.children = Append(@, child_node)]

node_to_xml(node, xml, depth) ==
    IF node = NullPlist THEN xml
    ELSE xmlNodeAddContent(
             LinkChild(xmlNodeAddContent(xml, Rep(TAB, depth)),
                       FillChild(node, NewChildOf(node, depth), depth)),
             <<NL>>)

(***************************************************************************)
(* plist_to_xml(plist, plist_xml, length).  has_dest is FALSE when the     *)
(* plist_xml argument itself is a null pointer.                            *)
(***************************************************************************)
\* new_xml_plist(): the document parsed from plist_base
new_xml_plist == [isnull |-> FALSE, root |-> XmlElement("plist", <<XmlText(<<NL>>)>>)]

\* the bytes xmlDocDumpMemory writes before the root element's own markup:
\* the XML declaration and the DOCTYPE line of plist_base
PrologSize == 151
\* ... and the root element's attribute, version="1.0" with its space
RootAttrSize == 14

RECURSIVE MarkupSize(_)
RECURSIVE MarkupSizeList(_, _)
MarkupSizeList(nodes, i) ==
    IF i > Len(nodes) THEN 0 ELSE MarkupSize(nodes[i]) + MarkupSizeList(nodes, i + 1)

MarkupSize(node) ==
    IF node.type = "text" THEN Len(node.content)
    ELSE IF node.children = <<>> THEN Len(node.name) + 3
    ELSE 2 * Len(node.name) + 5 + MarkupSizeList(node.children, 1)

\* the size xmlDocDumpMemory reports for a serialized document
DumpSize(buf) == PrologSize + RootAttrSize + MarkupSize(buf.root) + 1

\* the guard of line 367 without its test of *plist_xml
ToXmlGuardNoDestCheck(root, has_dest, dest) == root = NullPlist \/ ~has_dest
ToXmlGuard(root, has_dest, dest) == root = NullPlist \/ ~has_dest \/ dest # NullBuf

\* lines 375-377
DumpResult(bytes) == [plist_xml |-> bytes, length |-> DumpSize(bytes), built |-> TRUE]

plist_to_xml(root, has_dest, dest, len) ==
    IF ToXmlGuard(root, has_dest, dest)
    THEN [plist_xml |-> dest, length |-> len, built |-> FALSE]
    ELSE DumpResult(xmlDocDumpMemory(
             [new_xml_plist EXCEPT
                 !.root = node_to_xml(root, xmlDocGetRootElement(new_xml_plist), 0)]))

(***************************************************************************)
(* xml_to_node(xml_node, plist_node) and plist_from_xml.  The result is    *)
(* *plist_node as the call leaves it, the number of Value nodes the call   *)
(* created, and whether it read through a null xmlNodePtr.                 *)
(***************************************************************************)
GoodEncodings == {"UTF8", "ASCII", "NONE"}

\* xml_to_node without the test of line 240
XmlNodeIsNullNever(xml_node) == FALSE
XmlNodeIsNull(xml_node) == xml_node = NullXml

\* lines 253-256
Attach(tree, subnode) ==
    IF tree # NullPlist THEN g_node_append(tree, subnode) ELSE subnode

RECURSIVE xml_to_node(_, _, _)
RECURSIVE XmlToNodeLoop(_, _, _, _)

\* lines 258-356: the node made for one element, filled in by its tag
DecodeElement(node, path) ==
    LET sub == plist_new_node(path)
        strval == xmlNodeGetContent(node)
        leaf(t) == [tree |-> t, created |-> 1, fault |-> FALSE]
        struct(t) == LET r == xml_to_node(node, t, path)
                     IN  [tree |-> r.tree, created |-> 1 + r.created, fault |-> r.fault]
    IN
    IF node.name = XPLIST_TRUE
        THEN leaf([sub EXCEPT !.boolval = TRUE, !.type = "PLIST_BOOLEAN", !.length = 1])
    ELSE IF node.name = XPLIST_FALSE
        THEN leaf([sub EXCEPT !.boolval = FALSE, !.type = "PLIST_BOOLEAN", !.length = 1])
    ELSE IF node.name = XPLIST_INT
        THEN leaf([sub EXCEPT !.intval = g_ascii_strtoull(strval),
                              !.type = "PLIST_UINT", !.length = 8])
    ELSE IF node.name = XPLIST_REAL
        THEN leaf([sub EXCEPT !.realval = atof(strval), !.type = "PLIST_REAL", !.length = 8])
    ELSE IF node.name = XPLIST_DATE
        THEN leaf([sub EXCEPT !.timeval = g_time_val_from_iso8601(strval, @),
                              !.type = "PLIST_DATE", !.length = 16])
    ELSE IF node.name = XPLIST_STRING
        THEN IF xmlDetectCharEncoding(strval) \in GoodEncodings
             THEN leaf([sub EXCEPT !.strval = strval, !.type = "PLIST_STRING",
                                   !.length = Len(strval)])
             ELSE leaf(sub)
    ELSE IF node.name = XPLIST_KEY
        THEN leaf([sub EXCEPT !.strval = strval, !.type = "PLIST_KEY", !.length = Len(strval)])
    ELSE IF node.name = XPLIST_DATA
        THEN leaf([sub EXCEPT !.buff = g_base64_decode(strval),
                              !.length = Len(g_base64_decode(strval)),
                              !.type = "PLIST_DATA"])
    ELSE IF node.name = XPLIST_ARRAY
        THEN struct([sub EXCEPT !.type = "PLIST_ARRAY"])
    ELSE IF node.name = XPLIST_DICT
        THEN struct([sub EXCEPT !.type = "PLIST_DICT"])
    ELSE leaf(sub)

\* lines 243-257: the loop over xml_node->children from the i-th on
XmlToNodeLoop(kids, i, tree, path) ==
    LET elems == { k \in i..Len(kids) : kids[k].name # XPLIST_TEXT } IN
    IF elems = {} THEN [tree |-> tree, created |-> 0, fault |-> FALSE]
    ELSE
        LET j == Min(elems)
            d == DecodeElement(kids[j], path \o <<j>>)
            r == XmlToNodeLoop(kids, j + 1, Attach(tree, d.tree), path)
        IN  [tree |-> r.tree, created |-> d.created + r.created, fault |-> d.fault \/ r.fault]

xml_to_node(xml_node, plist_node, path) ==
    IF XmlNodeIsNull(xml_node) THEN [tree |-> plist_node, created |-> 0, fault |-> FALSE]
    ELSE IF xml_node = NullXml
        THEN [tree |-> plist_node, created |-> 0, fault |-> TRUE]  \* xml_node->children
    ELSE XmlToNodeLoop(xml_node.children, 1, plist_node, path)

plist_from_xml(buf, plist_node) ==
    LET plist_doc == xmlParseMemory(buf)
        root_node == xmlDocGetRootElement(plist_doc)
    IN  xml_to_node(root_node, plist_node, <<>>)

(***************************************************************************)
(* The formatter on its own: Init draws (buf, cols, depth), FormatString   *)
(* applies format_string to it.                                            *)
(***************************************************************************)
TestBuf(len) == [k \in 1..len |-> 32 + k]

ZeroBytes(n) == [k \in 1..n |-> 0]

FormatInputs ==
    { [buf |-> TestBuf(len), cols |-> c, depth |-> d] :
        len \in 0..MaxLen, c \in 1..MaxCols, d \in 0..MaxTabs }
    \cup { [buf |-> g_base64_encode(ZeroBytes(61)), cols |-> DataCols, depth |-> d] :
            d \in 0..MaxTabs }
    \cup { [buf |-> TestBuf(2 * DataCols), cols |-> DataCols, depth |-> 1] }

NoFmt == [pc |-> "idle", buf |-> <<>>, cols |-> 1, depth |-> 0,
          ret |-> [size |-> 0, writes |-> <<>>, reads |-> {}, counts |-> {},
                   new_buf |-> <<>>, str |-> <<>>]]

FormatString ==
    /\ fmt.pc = "call"
    /\ fmt' = [fmt EXCEPT !.pc = "done",
                          !.ret = format_string(fmt.buf, fmt.cols, fmt.depth)]
    /\ UNCHANGED <<plist_xml, length, plist, plist_in, encoded, last>>

(***************************************************************************)
(* The trees a caller builds for encoding.                                 *)
(***************************************************************************)
Bool(b) == [NullPlist EXCEPT !.type = "PLIST_BOOLEAN", !.boolval = b, !.length = 1]
UInt(n) == [NullPlist EXCEPT !.type = "PLIST_UINT", !.intval = n, !.length = 8]
Real(r) == [NullPlist EXCEPT !.type = "PLIST_REAL", !.realval = r, !.length = 8]
Str(s) == [NullPlist EXCEPT !.type = "PLIST_STRING", !.strval = s, !.length = Len(s)]
Key(s) == [NullPlist EXCEPT !.type = "PLIST_KEY", !.strval = s, !.length = Len(s)]
Data(b) == [NullPlist EXCEPT !.type = "PLIST_DATA", !.buff = b, !.length = Len(b)]
Date(sec, usec) ==
    [NullPlist EXCEPT !.type = "PLIST_DATE", !.timeval = [tv_sec |-> sec, tv_usec |-> usec],
                      !.length = 16]
Array(kids) == [NullPlist EXCEPT !.type = "PLIST_ARRAY", !.children = kids]
Dict(kids) == [NullPlist EXCEPT !.type = "PLIST_DICT", !.children = kids]

StrChars == {97, 38, 59, 60}      \* a & ; <

RECURSIVE StringsOfLen(_)
StringsOfLen(n) ==
    IF n = 0 THEN {<<>>}
    ELSE { <<c>> \o s : c \in StrChars, s \in StringsOfLen(n - 1) }

FiveSpecials == <<60, 62, 38, 39, 34>>      \* < > & ' "
AmpLtText == <<38, 108, 116, 59>>           \* the four characters & l t ;

StrVals == UNION { StringsOfLen(n) : n \in 0..MaxStrLen } \cup {FiveSpecials, AmpLtText}

TopLeaves ==
    { Bool(TRUE), Bool(FALSE), UInt(0), UInt(42), UInt(1000000),
      Real(0), Real(15), Real(25000004), Real(314159265),
      Data(<<>>), Data(<<0>>), Data(<<255, 1>>), Data(<<1, 2, 3>>), Data(<<250, 251, 252, 253>>),
      Data(ZeroBytes(61)),
      Date(0, 0), Date(3661, 0), Date(86399, 500000) }
    \cup { Str(s) : s \in StrVals }
    \cup { Key(s) : s \in StrVals }

\* the leaves placed inside containers
KidLeaves == { Bool(TRUE), UInt(42), Real(15), Str(<<60, 97>>), Data(<<255, 1>>) }
KidKeys == { Key(<<97>>), Key(<<38>>) }

(* Nested trees by node count: an Array holds any values, a Dict holds     *)
(* alternating Key, value pairs.                                           *)
RECURSIVE ValuesOfSize(_)
RECURSIVE Forests(_)
RECURSIVE Pairs(_)
Forests(n) ==
    IF n = 0 THEN {<<>>}
    ELSE UNION { { <<v>> \o f : v \in ValuesOfSize(k), f \in Forests(n - k) } : k \in 1..n }

Pairs(n) ==
    IF n = 0 THEN {<<>>}
    ELSE IF n = 1 THEN {}
    ELSE UNION { { <<key, v>> \o f : key \in KidKeys, v \in ValuesOfSize(k),
                                    f \in Pairs(n - 1 - k) } : k \in 1..(n - 1) }

ValuesOfSize(n) ==
    IF n = 1 THEN KidLeaves \cup {Array(<<>>), Dict(<<>>)}
    ELSE { Array(f) : f \in Forests(n - 1) } \cup { Dict(f) : f \in Pairs(n - 1) }

\* a Dict of two pairs, one value a container, and an Array three deep
SampleTrees ==
    { Dict(<<Key(<<97>>), Str(FiveSpecials), Key(<<97, 97>>), Array(<<UInt(42), Bool(FALSE)>>)>>),
      Dict(<<Key(<<97>>), Data(ZeroBytes(61)), Key(<<97, 97>>), Dict(<<>>),
             Key(<<97, 97, 97>>), Date(3661, 0)>>),
      Array(<<Array(<<Array(<<Data(<<1, 2, 3>>)>>), Dict(<<Key(<<97>>), UInt(0)>>)>>), Real(0)>>) }

Trees == TopLeaves \cup UNION { ValuesOfSize(n) : n \in 2..MaxNodes } \cup SampleTrees

\* the trees a caller passes, besides its own and NULL, to a plist_to_xml whose
\* destination already holds a buffer
ProbeTrees == { Bool(TRUE), Array(<<UInt(42)>>) }

(***************************************************************************)
(* Document bytes a caller receives from elsewhere and decodes.            *)
(***************************************************************************)
Leaf(name, text) == XmlElement(name, IF text = <<>> THEN <<>> ELSE <<XmlText(text)>>)

BadEncodingText == <<255, 254, 97>>     \* starts with the UTF-16LE byte-order mark

LeafElems ==
    { Leaf(XPLIST_TRUE, <<>>), Leaf(XPLIST_FALSE, <<>>),
      Leaf(XPLIST_INT, <<52, 50>>), Leaf(XPLIST_INT, <<48, 120, 49, 70>>),
      Leaf(XPLIST_INT, <<122>>),
      Leaf(XPLIST_REAL, <<49, 46, 53>>),
      Leaf(XPLIST_DATE, g_time_val_to_iso8601([tv_sec |-> 3661, tv_usec |-> 0])),
      Leaf(XPLIST_DATE, <<122>>),
      Leaf(XPLIST_STRING, <<97, 38, 97, 109, 112, 59>>),
      Leaf(XPLIST_STRING, BadEncodingText),
      Leaf(XPLIST_KEY, <<97>>), Leaf(XPLIST_KEY, BadEncodingText),
      Leaf(XPLIST_DATA, <<65, 81, 73, 61>>), Leaf(XPLIST_DATA, <<>>),
      Leaf("foo", <<>>), Leaf("foo", <<97>>) }

\* the elements placed inside containers of a foreign document
KidElems ==
    { Leaf(XPLIST_TRUE, <<>>), Leaf(XPLIST_INT, <<52, 50>>), Leaf(XPLIST_STRING, BadEncodingText),
      Leaf(XPLIST_KEY, BadEncodingText), Leaf("foo", <<>>),
      XmlElement("foo", <<Leaf(XPLIST_INT, <<49>>)>>),
      XmlElement(XPLIST_ARRAY, <<Leaf(XPLIST_FALSE, <<>>)>>) }

RECURSIVE ElemSeqs(_)
ElemSeqs(n) ==
    IF n = 0 THEN {<<>>}
    ELSE { <<e>> \o es : e \in KidElems, es \in ElemSeqs(n - 1) }

ContainerElems ==
    { XmlElement(tag, es) : tag \in {XPLIST_ARRAY, XPLIST_DICT, "foo"},
                            es \in UNION { ElemSeqs(n) : n \in 0..MaxElems } }

TopElemSeqs ==
    {<<>>}
    \cup { <<e>> : e \in LeafElems \cup ContainerElems }
    \cup { <<e1, e2>> : e1 \in LeafElems \cup { c \in ContainerElems : Len(c.children) <= 1 },
                        e2 \in { Leaf(XPLIST_INT, <<52, 50>>), Leaf("foo", <<>>),
                                 XmlElement(XPLIST_DICT, <<Leaf(XPLIST_KEY, <<97>>),
                                                          Leaf(XPLIST_TRUE, <<>>)>>) } }

\* the same markup laid out one element per line
RECURSIVE PrettyList(_, _)
Pretty(node) ==
    IF node.type # "element" \/ node.children = <<>> \/ node.children[1].type = "text"
    THEN node
    ELSE XmlElement(node.name, <<XmlText(<<NL>>)>> \o PrettyList(node.children, 1))

PrettyList(nodes, i) ==
    IF i > Len(nodes) THEN <<>>
    ELSE <<Pretty(nodes[i]), XmlText(<<NL>>)>> \o PrettyList(nodes, i + 1)

ForeignBufs ==
    { XmlBytes(XmlElement("plist", es)) : es \in TopElemSeqs }
    \cup { XmlBytes(XmlElement("plist", <<XmlText(<<NL>>)>> \o PrettyList(es, 1))) :
            es \in TopElemSeqs }
    \cup { BadBytes, XmlBytes(NullXml),
           XmlBytes(XmlElement("plist", <<Leaf(XPLIST_STRING, <<97, 38, 97>>)>>)) }

\* a tree the caller already holds in *plist when it calls plist_from_xml
RECURSIVE MarkOld(_)
MarkOld(t) ==
    IF t = NullPlist THEN t
    ELSE [t EXCEPT !.from = <<0>>, !.children = [k \in DOMAIN @ |-> MarkOld(@[k])]]

PreTree == MarkOld(Array(<<UInt(7)>>))

(***************************************************************************)
(* The caller's session with the codec.                                    *)
(***************************************************************************)
NoCall == [op |-> "none", root_null |-> FALSE, has_dest |-> FALSE, built |-> FALSE,
           pre |-> NullPlist, created |-> 0, fault |-> FALSE, calls |-> 0]

Init ==
    /\ \/ plist_in \in Trees /\ plist_xml = NullBuf /\ plist = NullPlist
       \/ plist_in = NullPlist /\ plist_xml \in ForeignBufs \cup {NullBuf}
                              /\ plist \in {NullPlist, PreTree}
    /\ length = 0
    /\ encoded = NullPlist
    /\ last = NoCall
    /\ fmt = NoFmt

\* plist_to_xml(root, &plist_xml or NULL, &length)
ToXml ==
    \E root \in {plist_in, NullPlist} \cup (IF plist_xml # NullBuf THEN ProbeTrees ELSE {}),
       has_dest \in BOOLEAN :
      \E r \in {plist_to_xml(root, has_dest, plist_xml, length)} :
        /\ plist_xml' = r.plist_xml
        /\ length' = r.length
        /\ encoded' = IF r.built THEN root ELSE encoded
        /\ last' = [last EXCEPT !.op = "to_xml", !.root_null = (root = NullPlist),
                                !.has_dest = has_dest, !.built = r.built,
                                !.pre = NullPlist, !.created = 0, !.fault = FALSE]
        /\ UNCHANGED <<plist, plist_in, fmt>>

\* plist_from_xml(plist_xml, length, &plist)
FromXml ==
    /\ last.calls < MaxCalls
    /\ \E pre \in {MarkOld(plist)} :
       \E r \in {plist_from_xml(plist_xml, pre)} :
           /\ plist' = r.tree
           /\ last' = [last EXCEPT !.op = "from_xml", !.root_null = FALSE,
                                   !.has_dest = FALSE, !.built = FALSE, !.pre = pre, !.created = r.created,
                                   !.fault = r.fault, !.calls = @ + 1]
    /\ UNCHANGED <<plist_xml, length, plist_in, encoded, fmt>>

Next == ToXml \/ FromXml

Spec == Init /\ [][Next]_vars

InitFormat ==
    /\ fmt \in { [NoFmt EXCEPT !.pc = "call", !.buf = in.buf, !.cols = in.cols,
                               !.depth = in.depth] : in \in FormatInputs }
    /\ plist_xml = NullBuf
    /\ length = 0
    /\ plist = NullPlist
    /\ plist_in = NullPlist
    /\ encoded = NullPlist
    /\ last = NoCall

NextFormat == FormatString

SpecFormat == InitFormat /\ [][NextFormat]_vars

(***************************************************************************)
(* Vocabulary of the properties.                                           *)
(***************************************************************************)
RECURSIVE NodesOf(_)
NodesOf(t) ==
    IF t = NullPlist THEN {}
    ELSE {t} \cup UNION { NodesOf(t.children[k]) : k \in DOMAIN t.children }

\* the payload the kind tag selects
SamePayload(a, b) ==
    /\ a.type = b.type
    /\ CASE a.type = "PLIST_BOOLEAN" -> a.boolval = b.boolval
         [] a.type = "PLIST_UINT" -> a.intval = b.intval
         [] a.type = "PLIST_REAL" -> Round6(a.realval) = Round6(b.realval)
         [] a.type \in {"PLIST_STRING", "PLIST_KEY"} -> a.strval = b.strval
         [] a.type = "PLIST_DATA" ->
                /\ a.length = b.length
                /\ SubSeq(a.buff, 1, a.length) = SubSeq(b.buff, 1, b.length)
         [] a.type = "PLIST_DATE" -> a.timeval = b.timeval
         [] OTHER -> TRUE

RECURSIVE SameTree(_, _)
SameTree(a, b) ==
    /\ SamePayload(a, b)
    /\ Len(a.children) = Len(b.children)
    /\ \A k \in DOMAIN a.children : SameTree(a.children[k], b.children[k])

KnownTags ==
    {XPLIST_TRUE, XPLIST_FALSE, XPLIST_INT, XPLIST_REAL, XPLIST_DATE, XPLIST_STRING,
     XPLIST_KEY, XPLIST_DATA, XPLIST_ARRAY, XPLIST_DICT}

\* the document the decoder was given, as the XML collaborator parses it
GivenRoot == xmlDocGetRootElement(xmlParseMemory(plist_xml))

RECURSIVE ElemAt(_, _)
ElemAt(elem, path) ==
    IF path = <<>> THEN elem
    ELSE IF path[1] \in DOMAIN elem.children THEN ElemAt(elem.children[path[1]], Tail(path))
    ELSE NullXml

ElementIndexes(elem) == { k \in DOMAIN elem.children : elem.children[k].name # XPLIST_TEXT }

\* the places of the elements the decoder meets below elem: its non-text
\* children, and those of every array or dict element among them
RECURSIVE MetBelow(_, _)
MetBelow(elem, path) ==
    UNION { {path \o <<k>>}
            \cup (IF elem.children[k].name \in {XPLIST_ARRAY, XPLIST_DICT}
                  THEN MetBelow(elem.children[k], path \o <<k>>) ELSE {})
            : k \in ElementIndexes(elem) }

MetPaths == IF GivenRoot = NullXml THEN {} ELSE MetBelow(GivenRoot, <<>>)

\* the nodes of the result that this call decoded
DecodedNodes == { n \in NodesOf(plist) : n.from # <<0>> /\ n.from # <<>> }

SpecialChars == {60, 62, 38, 39, 34}
HasSpecial(s) == \E k \in DOMAIN s : s[k] \in SpecialChars

DecodedEncoderOutput == last.op = "from_xml" /\ encoded # NullPlist /\ last.pre = NullPlist

(***************************************************************************)
(* C1: decoding the output of plist_to_xml(x) into a null out-parameter    *)
(* gives a tree structurally equal to x: the same kind and payload at      *)
(* every node (a Real up to "%f"'s six digits) and the same children in    *)
(* the same order.                                                         *)
(***************************************************************************)
C1_RoundTrip == DecodedEncoderOutput => (plist # NullPlist /\ SameTree(plist, encoded))

(***************************************************************************)
(* C2: an element whose tag is none of the ten known ones is skipped: no   *)
(* Value node is made for it, and every element with a known tag that the  *)
(* decoder meets still gets its node.                                      *)
(***************************************************************************)
C2_UnknownTagSkipped ==
    last.op = "from_xml" =>
        /\ \A n \in DecodedNodes : ElemAt(GivenRoot, n.from).name \in KnownTags
        /\ \A p \in MetPaths :
              ElemAt(GivenRoot, p).name \in KnownTags => \E n \in DecodedNodes : n.from = p

RECURSIVE NewTreeShape(_)
NewTreeShape(n) ==
    /\ n.from # <<0>>
    /\ n.children # <<>> => n.type \in Containers
    /\ \A k \in DOMAIN n.children :
          /\ Len(n.children[k].from) = Len(n.from) + 1
          /\ SubSeq(n.children[k].from, 1, Len(n.from)) = n.from
          /\ NewTreeShape(n.children[k])

C4_NewTreeForValueElement ==
    (last.op = "from_xml" /\ GivenRoot # NullXml /\ ElementIndexes(GivenRoot) # {}) =>
        /\ plist # NullPlist
        /\ plist.from = <<Min(ElementIndexes(GivenRoot))>>
        /\ NewTreeShape(plist)

(***************************************************************************)
(* C5: a string or key element whose content's detected encoding is not    *)
(* UTF-8, ASCII or none still gets a node, of kind String (or Key), with   *)
(* no string payload assigned.                                             *)
(***************************************************************************)
BadlyEncoded(elem) ==
    /\ elem.name \in {XPLIST_STRING, XPLIST_KEY}
    /\ xmlDetectCharEncoding(xmlNodeGetContent(elem)) \notin GoodEncodings

C5_BadEncodingNode ==
    last.op = "from_xml" =>
        \A p \in MetPaths :
            BadlyEncoded(ElemAt(GivenRoot, p)) =>
                \E n \in DecodedNodes :
                    /\ n.from = p
                    /\ n.type = (IF ElemAt(GivenRoot, p).name = XPLIST_STRING
                                 THEN "PLIST_STRING" ELSE "PLIST_KEY")
                    /\ n.strval = NullStr

(***************************************************************************)
(* C6: a String and a Key alike are written through the escaping path, so  *)
(* a payload holding any of < > & ' " decodes to the identical string for  *)
(* either kind.                                                            *)
(***************************************************************************)
C6_SpecialCharsBothKinds ==
    (DecodedEncoderOutput /\ encoded.type \in {"PLIST_STRING", "PLIST_KEY"}
        /\ HasSpecial(encoded.strval))
    => (plist.type = encoded.type /\ plist.strval = encoded.strval)

(***************************************************************************)
(* C7: for a non-empty input of length L, width W and depth D the result   *)
(* is floor(L/W)+1 lines, each a newline, D tabs and the next W input      *)
(* characters (the last line the remaining L mod W), then a newline and D  *)
(* tabs; nothing is lost, repeated or cut by a NUL, so its length is       *)
(* L + (D+1)*(floor(L/W)+1) + 1 + D.  The 84 base64 characters of 61 zero  *)
(* bytes at W = 60 give lines of 60 and 24 characters.                     *)
(***************************************************************************)
RECURSIVE ExpectedLines(_, _, _, _)
ExpectedLines(buf, w, d, i) ==
    IF i > Len(buf) \div w THEN <<>>
    ELSE <<NL>> \o Rep(TAB, d)
         \o SubSeq(buf, i * w + 1, IF (i + 1) * w < Len(buf) THEN (i + 1) * w ELSE Len(buf))
         \o ExpectedLines(buf, w, d, i + 1)

ExpectedText(buf, w, d) == ExpectedLines(buf, w, d, 0) \o <<NL>> \o Rep(TAB, d)

C7_FormatLines ==
    (fmt.pc = "done" /\ Len(fmt.buf) > 0) =>
        LET L == Len(fmt.buf)  W == fmt.cols  D == fmt.depth IN
        /\ fmt.ret.str = ExpectedText(fmt.buf, W, D)
        /\ Len(fmt.ret.str) = L + (D + 1) * (L \div W + 1) + 1 + D
        /\ (W = 60 /\ L = 84) =>
              fmt.ret.str = <<NL>> \o Rep(TAB, D) \o SubSeq(fmt.buf, 1, 60)
                            \o <<NL>> \o Rep(TAB, D) \o SubSeq(fmt.buf, 61, 84)
                            \o <<NL>> \o Rep(TAB, D)

C7_Witness ==
    /\ fmt.pc = "done" /\ fmt.cols = 60 /\ fmt.depth = 1
    /\ fmt.buf = g_base64_encode(ZeroBytes(61)) /\ Len(fmt.buf) = 84
    /\ Len(fmt.ret.str) = 84 + 2 * 2 + 1 + 1

(***************************************************************************)
(* C8: in the encoder's output every value element is preceded by exactly  *)
(* as many tabs as it has enclosing Array/Dict elements and followed by a  *)
(* newline; a container's opening tag is followed by a newline and its     *)
(* closing tag is preceded by as many tabs as its opening tag; later       *)
(* siblings are indented as earlier ones.                                  *)
(***************************************************************************)
\* the number of tabs that end a text
TrailingTabs(s) ==
    LET others == { k \in DOMAIN s : s[k] # TAB }
    IN  IF others = {} THEN Len(s) ELSE Len(s) - Max(others)

IsTextNode(nodes, k) == k \in DOMAIN nodes /\ nodes[k].type = "text"

\* the markup before place k of a node list ends in a line break and exactly
\* d tabs
TabsBefore(nodes, k, d) ==
    /\ IsTextNode(nodes, k - 1)
    /\ TrailingTabs(nodes[k - 1].content) = d
    /\ Len(nodes[k - 1].content) > d
    /\ nodes[k - 1].content[Len(nodes[k - 1].content) - d] = NL

RECURSIVE Indented(_, _)
Indented(elem, depth) ==
    \A k \in DOMAIN elem.children :
        LET c == elem.children[k] IN
        c.type = "element" =>
            /\ TabsBefore(elem.children, k, depth)
            /\ IsTextNode(elem.children, k + 1)
            /\ elem.children[k + 1].content[1] = NL
            /\ c.name \in {XPLIST_ARRAY, XPLIST_DICT} =>
                  /\ IsTextNode(c.children, 1)
                  /\ c.children[1].content[1] = NL
                  /\ TabsBefore(c.children, Len(c.children) + 1, depth)
                  /\ Indented(c, depth + 1)

C8_Indentation == encoded # NullPlist => Indented(plist_xml.root, 0)

C8_Witness ==
    /\ plist_xml # NullBuf
    /\ encoded = Array(<<Array(<<Array(<<Data(<<1, 2, 3>>)>>),
                                 Dict(<<Key(<<97>>), UInt(0)>>)>>), Real(0)>>)

(***************************************************************************)
(* C9: when the XML collaborator yields no document, or one without a root *)
(* element, plist_from_xml creates no node, reads through no null pointer  *)
(* and leaves *plist as it was.                                            *)
(***************************************************************************)
YieldsNoRoot(buf) ==
    \/ buf.kind # "xml"
    \/ buf.root = NullXml
    \/ ~WellFormed(buf.root)

C9_NoDocumentNoOp ==
    (last.op = "from_xml" /\ YieldsNoRoot(plist_xml)) =>
        (plist = last.pre /\ last.created = 0 /\ ~last.fault)

C9_Witness ==
    /\ last.op = "from_xml" /\ plist_xml = BadBytes
    /\ last.pre = PreTree /\ plist = PreTree

(***************************************************************************)
(* C10: every byte format_string stores lies inside the buffer of          *)
(* (floor(L/W)+1)*(D+W+1)+D+1 bytes it allocated, and every copy reads     *)
(* input characters below L only, with a count that is not negative, also  *)
(* when L is 0 or an exact multiple of W.                                  *)
(***************************************************************************)
C10_FormatInBounds ==
    fmt.pc = "done" =>
        LET L == Len(fmt.buf)  W == fmt.cols  D == fmt.depth IN
        /\ fmt.ret.size = (L \div W + 1) * (D + W + 1) + D + 1
        /\ \A k \in DOMAIN fmt.ret.writes :
              fmt.ret.writes[k][1] >= 0 /\ fmt.ret.writes[k][1] < fmt.ret.size
        /\ \A r \in fmt.ret.reads : r >= 0 /\ r < L
        /\ \A c \in fmt.ret.counts : c >= 0

C10_Witness ==
    /\ fmt.pc = "done" /\ Len(fmt.buf) > 0 /\ Len(fmt.buf) % fmt.cols = 0
    /\ fmt.ret.writes[Len(fmt.ret.writes)] = <<fmt.ret.size - fmt.cols, NUL>>

====
